---- MODULE Spec2Model ----
(***************************************************************************)
(* A model of the case categorization page of the Support-Case-Classifier  *)
(* front end (frontend/src/components/CaseCategorizationApp.tsx): the      *)
(* upload handler and its PapaParse callbacks, the categorize handler with *)
(* its single fetch to the backend, and the CSV export handler; and of the  *)
(* settings page (case-categorization-ui/src/components/SettingsPage.tsx): *)
(* the model select, the taxonomy list editors and saveToServer; and of   *)
(* App (App.tsx): the initial load of the two taxonomy lists and the       *)
(* guards under which the routes are rendered.                             *)
(*                                                                         *)
(* JavaScript values are tagged records [t, s, o]: t is the type, s the    *)
(* text String(v) gives for a scalar, o the ordered own properties of an   *)
(* object.  An object's properties are a sequence of [k, v] entries kept   *)
(* in JavaScript's own-property order: integer-like keys first in          *)
(* ascending order, then the other keys in insertion order.                *)
(***************************************************************************)
EXTENDS Integers, Sequences, FiniteSets, TLC

\* ------------------------------------------------------------- bounds
\* The largest number of data rows of a parsed file.
MaxRows == 2
\* The largest number of file parses pending at once.
MaxPending == 1
\* The largest number of categorize requests in flight at once.
MaxInflight == 1
\* The largest number of entries of a taxonomy list on the settings page.
MaxEntries == 2
\* The largest number of taxonomy saves awaiting their response at once.
MaxSaves == 1

\* ------------------------------------------------------ JavaScript values
Str(x) == [t |-> "str", s |-> x, o |-> <<>>]
Num(x) == [t |-> "num", s |-> x, o |-> <<>>]
Bool(x) == [t |-> "bool", s |-> x, o |-> <<>>]
Null == [t |-> "null", s |-> "null", o |-> <<>>]
Undefined == [t |-> "undefined", s |-> "undefined", o |-> <<>>]
Obj(entries) == [t |-> "obj", s |-> "[object Object]", o |-> entries]
\* An array: its elements are the properties "0", "1", ... in order.
Arr(entries) == [t |-> "arr", s |-> "", o |-> entries]
Entry(key, val) == [k |-> key, v |-> val]

\* JavaScript truthiness: "", 0, false, null and undefined are falsy.
Truthy(v) ==
  CASE v.t = "str" -> v.s # ""
    [] v.t = "num" -> v.s \notin {"0", "NaN"}
    [] v.t = "bool" -> v.s = "true"
    [] v.t \in {"obj", "arr"} -> TRUE
    [] OTHER -> FALSE

\* v || ''
OrEmpty(v) == IF Truthy(v) THEN v ELSE Str("")

\* String(v)
JsString(v) == Str(v.s)

\* Integer-like property names (array indices) and their numeric value.
IndexValue == ("0" :> 0) @@ ("1" :> 1) @@ ("2024" :> 2024)
IsIndex(key) == key \in DOMAIN IndexValue

HasKey(entries, key) == \E i \in 1..Len(entries) : entries[i].k = key
KeyPos(entries, key) == CHOOSE i \in 1..Len(entries) : entries[i].k = key
Keys(entries) == [i \in 1..Len(entries) |-> entries[i].k]

\* obj[key]: undefined when the object has no such own property.
Get(entries, key) ==
  IF HasKey(entries, key) THEN entries[KeyPos(entries, key)].v ELSE Undefined

InsertAt(seq, i, e) == SubSeq(seq, 1, i - 1) \o <<e>> \o SubSeq(seq, i, Len(seq))

\* obj[key] = val.  An existing property keeps its place; a new integer-like
\* key goes among the integer-like keys in ascending order, before every
\* other key; any other new key goes last.
SetKey(entries, key, val) ==
  IF HasKey(entries, key)
  THEN [entries EXCEPT ![KeyPos(entries, key)] = Entry(key, val)]
  ELSE IF IsIndex(key)
  THEN LET before == {i \in 1..Len(entries) :
                        /\ IsIndex(entries[i].k)
                        /\ IndexValue[entries[i].k] < IndexValue[key]}
       IN InsertAt(entries, Cardinality(before) + 1, Entry(key, val))
  ELSE Append(entries, Entry(key, val))

\* The characters of the strings the model's samples hold in a cell that is
\* spread ({...str} defines one property per character, named by its index).
StringChars(x) == IF x = "x" THEN <<Entry("0", Str("x"))>> ELSE <<>>

\* The own enumerable properties {...v} copies: an object's properties, a
\* string's characters, nothing for any other value.
OwnEntries(v) ==
  CASE v.t = "obj" -> v.o
    [] v.t = "str" -> StringChars(v.s)
    [] OTHER -> <<>>

RECURSIVE SetAll(_, _)
SetAll(entries, more) ==
  IF more = <<>> THEN entries
  ELSE SetAll(SetKey(entries, more[1].k, more[1].v), Tail(more))

\* { ...target, ...v }
Spread(entries, v) == SetAll(entries, OwnEntries(v))


\* --------------------------------------------------------------- state
VARIABLES
  productCategories,   \* prop: the product categories, a list of [name, description]
  resolutionTypes,     \* prop: the resolution types, a list of [name, description]
  selectedModel,       \* prop: the selected model id
  csvData,             \* useState: the cases parsed from the uploaded file
  categorizedResults,  \* useState: the results shown and exported
  isCategorizing,      \* useState: a categorize request is running
  categorizationError, \* useState: string | null
  parsing,             \* the Papa.parse calls whose callback has not run yet
  inflight,            \* the handleCategorize calls suspended at their fetch
  showProductCategories, \* SettingsPage useState: the categories section is open
  showResolutionTypes, \* SettingsPage useState: the resolutions section is open
  saves,               \* the saveToServer calls suspended at their fetch: endpoint and data
  loadingInitialData,  \* App useState: fetchInitialData has not finished
  initialDataError,    \* App useState: string | null
  server,              \* the lists the backend holds: [categories, resolutions]
  event                \* the last handler run: its input and what it did outside

vars == <<productCategories, resolutionTypes, selectedModel, csvData,
          categorizedResults, isCategorizing, categorizationError,
          parsing, inflight, showProductCategories, showResolutionTypes,
          saves, loadingInitialData, initialDataError, server, event>>

\* The settings page's own state and its pending saves.
settingsPage == <<showProductCategories, showResolutionTypes, saves>>

props == <<productCategories, resolutionTypes, selectedModel>>
\* App's own state of the initial load.
appLoad == <<loadingInitialData, initialDataError>>
componentState == <<csvData, categorizedResults, isCategorizing, categorizationError>>

\* A handler run as the outside world sees it: the handler, the input its
\* caller gave it (the parsed rows, the response), the requests it sent,
\* the alerts it showed, the files it offered for download and the rows it
\* warned about on the console; for a parse, the errors the parser reported
\* beside the rows (results.errors).
Event(op) ==
  [op |-> op, input |-> <<>>, requests |-> <<>>, alerts |-> <<>>,
   downloads |-> <<>>, warned |-> <<>>, errors |-> <<>>]

\* ---------------------------------------------------------- sample inputs
KnownFields == <<"CaseNumber", "CaseTitle", "Description", "StatusReason">>
IsKnownField(key) == \E i \in 1..Len(KnownFields) : KnownFields[i] = key

\* A row as PapaParse builds it under header: true: row[header] = cell, one
\* header after the other, with dynamicTyping turning numeric cells into
\* numbers, true/false into booleans and empty cells into null.
ParsedRow(cells) == SetAll(<<>>, cells)

RowTicket == ParsedRow(<<
  Entry("CaseNumber", Str("C1")), Entry("CaseTitle", Str("Cannot log in")),
  Entry("Description", Str("User gets 500 error")), Entry("StatusReason", Str("Open")),
  Entry("Region", Str("EU")), Entry("Ticket ID", Str("T-123"))>>)
RowTyped == ParsedRow(<<
  Entry("CaseNumber", Num("7")),
  Entry("CaseTitle", Str("Login fails after update causing major issues")),
  Entry("Description", Str("d")), Entry("StatusReason", Bool("true")),
  Entry("Processing Error", Str("old")), Entry("2024", Num("3"))>>)
RowNested == ParsedRow(<<
  Entry("CaseNumber", Str("C3")), Entry("CaseTitle", Str("t")),
  Entry("Description", Str("d")), Entry("StatusReason", Str("Closed")),
  Entry("extra_fields", Str("x")), Entry("Region", Null)>>)
RowBlankTitle == ParsedRow(<<
  Entry("CaseNumber", Str("C4")), Entry("CaseTitle", Null),
  Entry("Description", Str("d")), Entry("StatusReason", Str("Open")),
  Entry("Region", Str("US"))>>)
\* A data row one field shorter than the header of RowTicket's file: the
\* parser builds it without the last column.
RowTicketShort == ParsedRow(<<
  Entry("CaseNumber", Str("C2")), Entry("CaseTitle", Str("Cannot log in")),
  Entry("Description", Str("User gets 500 error")), Entry("StatusReason", Str("Open")),
  Entry("Region", Str("EU"))>>)
RowZeroNumber == ParsedRow(<<
  Entry("CaseNumber", Num("0")), Entry("CaseTitle", Str("t")),
  Entry("Description", Str("d")), Entry("StatusReason", Str("Open"))>>)
RowShort == ParsedRow(<<
  Entry("CaseNumber", Str("C6")), Entry("CaseTitle", Str("t"))>>)

SampleRows == {RowTicket, RowTyped, RowNested, RowBlankTitle, RowZeroNumber, RowShort}

RECURSIVE SeqsUpTo(_, _)
SeqsUpTo(S, n) ==
  IF n = 0 THEN {<<>>}
  ELSE LET shorter == SeqsUpTo(S, n - 1)
       IN shorter \cup {Append(q, x) : q \in {r \in shorter : Len(r) = n - 1}, x \in S}

\* results.data of a completed parse: any rows, for the upload handler on
\* its own; for the page, the rows of one file, which share its header (a
\* file of full and short rows of the one shape, alone or after a skipped
\* row, or a file of rows of the other shape); rows of one shape for
\* direct calls of the handlers.
ParsedFiles == SeqsUpTo(SampleRows, MaxRows)
PageFiles ==
  LET ticketFiles == SeqsUpTo({RowTicket, RowTicketShort}, MaxRows)
      typedFiles == SeqsUpTo({RowTyped}, MaxRows)
  IN ticketFiles \cup typedFiles
       \cup {<<RowBlankTitle>> \o SubSeq(rows, 2, Len(rows)) :
               rows \in {r \in ticketFiles : Len(r) >= 1}}
CallFiles == SeqsUpTo({RowTicket}, MaxRows)

\* ------------------------------------------------------- handleFileUpload
NoValidCasesMessage ==
  "No valid cases found after parsing. Ensure your CSV has 'CaseNumber', 'CaseTitle', 'Description', and 'StatusReason' columns."
RowsSkippedMessage ==
  "Some rows were skipped due to missing essential columns ('CaseNumber', 'CaseTitle', 'Description', 'StatusReason')."
ParseFailedMessage ==
  "Failed to parse CSV file. Please check its format and ensure it's a valid CSV."

\* row[field] || '' without the String() around it.
FieldStringRaw(row, field) == OrEmpty(Get(row, field))

\* String(row[field] || '')
FieldString(row, field) == JsString(OrEmpty(Get(row, field)))

\* !caseNumber || !caseTitle || !description || !statusReason
MissingEssential(row) ==
  \E i \in 1..Len(KnownFields) : ~Truthy(FieldString(row, KnownFields[i]))

\* CollectExtras with String(row[key]) stored in place of row[key].
RECURSIVE CollectExtrasStringified(_, _)
CollectExtrasStringified(extras, cells) ==
  IF cells = <<>> THEN extras
  ELSE CollectExtrasStringified(
         IF IsKnownField(cells[1].k) THEN extras
         ELSE SetKey(extras, cells[1].k, JsString(cells[1].v)),
         Tail(cells))

\* for (const key in row): every column but the four recognized ones goes
\* into extra_fields under its own name, with the value as parsed.
RECURSIVE CollectExtras(_, _)
CollectExtras(extras, cells) ==
  IF cells = <<>> THEN extras
  ELSE CollectExtras(
         IF IsKnownField(cells[1].k) THEN extras
         ELSE SetKey(extras, cells[1].k, cells[1].v),
         Tail(cells))

NewCase(row) ==
  SetAll(<<>>, <<
    Entry("CaseNumber", FieldString(row, "CaseNumber")),
    Entry("CaseTitle", FieldString(row, "CaseTitle")),
    Entry("Description", FieldString(row, "Description")),
    Entry("StatusReason", FieldString(row, "StatusReason")),
    Entry("extra_fields", Obj(CollectExtras(<<>>, row)))>>)

\* results.data.forEach: the cases pushed, in row order.
RECURSIVE ProcessedData(_)
ProcessedData(rows) ==
  IF rows = <<>> THEN <<>>
  ELSE IF MissingEssential(rows[1]) THEN ProcessedData(Tail(rows))
  ELSE <<NewCase(rows[1])>> \o ProcessedData(Tail(rows))

\* The rows the forEach warns about and skips, by row number (rowIndex + 1).
SkippedRows(rows) == {i \in 1..Len(rows) : MissingEssential(rows[i])}
RECURSIVE Ascending(_)
Ascending(S) ==
  IF S = {} THEN <<>>
  ELSE LET m == CHOOSE x \in S : \A y \in S : x <= y
       IN <<m>> \o Ascending(S \ {m})

\* UploadError without the branch for a parse that skipped only some rows.
UploadErrorOnlyWhenEmpty(rows) ==
  IF ProcessedData(rows) = <<>> /\ Len(rows) > 0 THEN Str(NoValidCasesMessage)
  ELSE Null

UploadError(rows) ==
  IF ProcessedData(rows) = <<>> /\ Len(rows) > 0 THEN Str(NoValidCasesMessage)
  ELSE IF SkippedRows(rows) # {} THEN Str(RowsSkippedMessage)
  ELSE Null

\* onChange of the file input with no file chosen.
HandleFileUploadNoFile ==
  /\ csvData' = <<>>
  /\ categorizationError' = Null
  /\ categorizedResults' = <<>>
  /\ event' = Event("handleFileUpload")
  /\ UNCHANGED <<appLoad, server, props, settingsPage, isCategorizing, parsing, inflight>>

\* onChange of the file input with a file: Papa.parse starts reading it and
\* calls back later.
HandleFileUpload ==
  /\ parsing < MaxPending
  /\ parsing' = parsing + 1
  /\ event' = Event("handleFileUpload")
  /\ UNCHANGED <<appLoad, server, props, settingsPage, componentState, inflight>>

\* results.errors of a completed parse: PapaParse hands the complete
\* callback the rows it could read together with the errors it met in the
\* text (a quoted field that is never closed, a row with fewer fields than
\* the header); none for a well-formed file.
ParserReports == {<<>>, <<"MissingQuotes">>, <<"TooFewFields">>}

\* The report that comes with the rows of a file some of whose rows are
\* shorter than others.
FieldMismatch(rows) ==
  IF \E i, j \in 1..Len(rows) : Len(rows[i]) < Len(rows[j])
  THEN <<"TooFewFields">> ELSE <<>>

\* What the complete callback does with results.data: the cases it
\* stores, the error it sets and the rows it warns about.  It never reads
\* results.errors.
ParseOutcome(rows, reported) ==
  [rows |-> rows, errors |-> reported, data |-> ProcessedData(rows),
   error |-> UploadError(rows), warned |-> Ascending(SkippedRows(rows))]
ParsedOutcomes == {ParseOutcome(rows, reported) : rows \in ParsedFiles, reported \in ParserReports}
PageOutcomes == {ParseOutcome(rows, FieldMismatch(rows)) : rows \in PageFiles}
CallOutcomes == {ParseOutcome(rows, <<>>) : rows \in CallFiles}

\* Papa.parse's complete callback, on one of the given parses.
ParseComplete(outcomes) ==
  /\ parsing > 0
  /\ \E done \in outcomes :
       /\ csvData' = done.data
       /\ categorizationError' = done.error
       /\ event' = [Event("complete") EXCEPT
                      !.input = done.rows,
                      !.warned = done.warned,
                      !.errors = done.errors]
  /\ categorizedResults' = <<>>
  /\ parsing' = parsing - 1
  /\ UNCHANGED <<appLoad, server, props, settingsPage, isCategorizing, inflight>>

\* Papa.parse's error callback.
ParseError ==
  /\ parsing > 0
  /\ csvData' = <<>>
  /\ categorizationError' = Str(ParseFailedMessage)
  /\ parsing' = parsing - 1
  /\ event' = Event("error")
  /\ UNCHANGED <<appLoad, server, props, settingsPage, categorizedResults, isCategorizing, inflight>>


\* ------------------------------------------------------- handleCategorize
NoCasesMessage == "No cases loaded to categorize. Please upload a CSV file first."
TaxonomyMissingMessage ==
  "Please define product categories and resolution types in Settings first."
ModelMissingMessage == "Please select an LLM model in Settings first."
UnknownErrorMessage == "An unknown error occurred during categorization."

\* The request body's element for one case: the four recognized fields, then
\* the extra fields spread beside them.
FlattenCase(caseItem) ==
  Spread(
    SetAll(<<>>, <<
      Entry("CaseNumber", Get(caseItem, "CaseNumber")),
      Entry("CaseTitle", Get(caseItem, "CaseTitle")),
      Entry("Description", Get(caseItem, "Description")),
      Entry("StatusReason", Get(caseItem, "StatusReason"))>>),
    Get(caseItem, "extra_fields"))

\* fetch(`${BASE_URL}/categorize?model_name=${selectedModel}`, {method: "POST", body})
RequestBody(cases) == [i \in 1..Len(cases) |-> FlattenCase(cases[i])]
\* The request with the model name fixed to the default model.
CategorizeRequestDefaultModel(model, cases) ==
  [url |-> "/categorize?model_name=openai",
   method |-> "POST",
   headers |-> <<Entry("Content-Type", Str("application/json"))>>,
   body |-> RequestBody(cases)]

CategorizeRequest(model, cases) ==
  [url |-> "/categorize?model_name=" \o model,
   method |-> "POST",
   headers |-> <<Entry("Content-Type", Str("application/json"))>>,
   body |-> RequestBody(cases)]

\* handleCategorize with the check of the selected model left out.
PreconditionErrorNoModelCheck ==
  IF Len(csvData) = 0 THEN Str(NoCasesMessage)
  ELSE IF Len(productCategories) = 0 \/ Len(resolutionTypes) = 0
  THEN Str(TaxonomyMissingMessage)
  ELSE Null

\* handleCategorize with the two configuration messages exchanged.
PreconditionErrorSwapped ==
  IF Len(csvData) = 0 THEN Str(NoCasesMessage)
  ELSE IF Len(productCategories) = 0 \/ Len(resolutionTypes) = 0
  THEN Str(ModelMissingMessage)
  ELSE IF selectedModel = "" THEN Str(TaxonomyMissingMessage)
  ELSE Null

\* The three checks the handler starts with, in order: the message of the
\* first that fails, null when all pass.
PreconditionError ==
  IF Len(csvData) = 0 THEN Str(NoCasesMessage)
  ELSE IF Len(productCategories) = 0 \/ Len(resolutionTypes) = 0
  THEN Str(TaxonomyMissingMessage)
  ELSE IF selectedModel = "" THEN Str(ModelMissingMessage)
  ELSE Null

\* The handler up to its await: a failed check sets the error and returns;
\* otherwise it sets its state and sends the one request.  The closure keeps
\* the csvData of the render the handler belongs to.
HandleCategorize ==
  IF PreconditionError # Null
  THEN /\ categorizationError' = PreconditionError
       /\ event' = Event("handleCategorize")
       /\ UNCHANGED <<appLoad, server, props, settingsPage, csvData, categorizedResults, isCategorizing, parsing, inflight>>
  ELSE /\ isCategorizing' = TRUE
       /\ categorizationError' = Null
       /\ categorizedResults' = <<>>
       /\ inflight' = Append(inflight, [csvData |-> csvData])
       /\ event' = [Event("handleCategorize") EXCEPT
                      !.requests = <<CategorizeRequest(selectedModel, csvData)>>]
       /\ UNCHANGED <<appLoad, server, props, settingsPage, csvData, parsing>>

\* ------------------------------------------------- the categorize backend
\* One element of the response: the case as the backend holds it (the
\* recognized fields, every other field of the request element under
\* extra_fields) with its prediction, or with the error variant.
BackendCase(flat) ==
  SetAll(<<>>, <<
    Entry("CaseNumber", Get(flat, "CaseNumber")),
    Entry("CaseTitle", Get(flat, "CaseTitle")),
    Entry("Description", Get(flat, "Description")),
    Entry("StatusReason", Get(flat, "StatusReason")),
    Entry("extra_fields", Obj(CollectExtras(<<>>, flat)))>>)

CategorizedCase(original, category, resolution, certainty, reasoning, error) ==
  [originalCase |-> original, predictedCategory |-> category,
   predictedResolution |-> resolution, predictedCertainty |-> certainty,
   predictedReasoning |-> reasoning, error |-> error]

PredictionOutcomes == {"predicted", "failed"}

BackendResult(flat, outcome) ==
  IF outcome = "predicted"
  THEN CategorizedCase(BackendCase(flat), Str("Access Issue"), Str("Reset Credentials"),
                       Str("high"), Str("Matches login failure pattern."), Undefined)
  ELSE CategorizedCase(BackendCase(flat), Str("Error"), Str("Error"),
                       Str("Error"), Str("Error during processing."),
                       Str("LLM request failed"))

AnswerOrders(n) ==
  {p \in [1..n -> 1..n] : \A i, j \in 1..n : p[i] = p[j] => i = j}

\* The backend answers the cases in the order `order` and writes each
\* prediction to the slot of its case.
RECURSIVE Assemble(_, _, _, _)
Assemble(slots, body, outcomes, order) ==
  IF order = <<>> THEN slots
  ELSE Assemble([slots EXCEPT ![order[1]] = BackendResult(body[order[1]], outcomes[order[1]])],
                body, outcomes, Tail(order))

BackendResults(body) ==
  {Assemble([i \in 1..Len(body) |-> Undefined], body, outcomes, order) :
     outcomes \in [1..Len(body) -> PredictionOutcomes],
     order \in AnswerOrders(Len(body))}

\* ------------------------------------------------------------ responses
\* What the fetch of one handleCategorize call can give: a rejection, or a
\* response with its ok flag, status line and body; json is the parsed body
\* when response.json() can read it.
Response(rejected, ok, status, statusText, readable, json, results) ==
  [rejected |-> rejected, ok |-> ok, status |-> status, statusText |-> statusText,
   readable |-> readable, json |-> json, results |-> results]

ValidationDetail ==
  Arr(<<Entry("0", Obj(<<Entry("loc", Arr(<<Entry("0", Str("body")), Entry("1", Num("0"))>>)),
                          Entry("msg", Str("field required"))>>)),
        Entry("1", Obj(<<Entry("msg", Str("value is not a valid dict"))>>))>>)

FailedResponses == {
  Response(TRUE, FALSE, "", "", FALSE, Undefined, <<>>),
  Response(FALSE, FALSE, "502", "Bad Gateway", FALSE, Undefined, <<>>),
  Response(FALSE, FALSE, "400", "Bad Request", TRUE,
           Obj(<<Entry("detail", Str("Unsupported model"))>>), <<>>),
  Response(FALSE, FALSE, "422", "Unprocessable Entity", TRUE,
           Obj(<<Entry("detail", ValidationDetail)>>), <<>>),
  Response(FALSE, FALSE, "500", "Internal Server Error", TRUE,
           Obj(<<Entry("detail", Obj(<<Entry("code", Num("1"))>>))>>), <<>>),
  Response(FALSE, FALSE, "500", "", TRUE, Obj(<<>>), <<>>),
  Response(FALSE, FALSE, "404", "Not Found", TRUE,
           Obj(<<Entry("detail", Str(""))>>), <<>>),
  Response(FALSE, FALSE, "422", "Unprocessable Entity", TRUE,
           Obj(<<Entry("detail", Arr(<<>>))>>), <<>>),
  Response(FALSE, TRUE, "200", "OK", FALSE, Undefined, <<>>)}

OkResponses(body) ==
  {Response(FALSE, TRUE, "200", "OK", TRUE, Undefined, results) :
     results \in BackendResults(body)}

\* The message of the error the platform throws: fetch's TypeError, and
\* response.json()'s SyntaxError on a body that is not JSON.
FetchFailedMessage == "Failed to fetch"
JsonSyntaxMessage == "Unexpected token < in JSON at position 0"

RECURSIVE Join(_, _)
\* array.join(separator) of an array of strings
Join(texts, separator) ==
  IF texts = <<>> THEN ""
  ELSE IF Len(texts) = 1 THEN texts[1]
  ELSE texts[1] \o separator \o Join(Tail(texts), separator)

\* JSON.stringify of the detail values the sample responses hold.
JsonStringify(v) ==
  CASE v.t = "str" -> "\"" \o v.s \o "\""
    [] v.t = "obj" /\ v.o = <<>> -> "{}"
    [] v.t = "arr" /\ v.o = <<>> -> "[]"
    [] v.t = "obj" ->
         "{" \o Join([i \in 1..Len(v.o) |->
                        "\"" \o v.o[i].k \o "\":" \o v.o[i].v.s], ",") \o "}"
    [] OTHER -> v.s

\* `${loc}: ${err.msg}` of one element of a detail array
DetailItemText(err) ==
  LET locValue == Get(err.o, "loc")
      loc == IF Truthy(locValue)
             THEN Join([i \in 1..Len(locValue.o) |-> locValue.o[i].v.s], ".")
             ELSE "unknown"
  IN loc \o ": " \o Get(err.o, "msg").s

\* The status text for every non-ok response, whatever its body.
NotOkMessageGeneric(resp) == "Categorization failed: " \o resp.statusText

\* The message of the Error a non-ok response makes the handler throw.
NotOkMessage(resp) ==
  IF ~resp.readable
  THEN "Categorization failed: " \o resp.status \o " - " \o resp.statusText
  ELSE LET errorData == resp.json
           detail == IF errorData.t = "obj" THEN Get(errorData.o, "detail") ELSE Undefined
       IN IF Truthy(errorData) /\ Truthy(detail)
          THEN IF detail.t = "arr" /\ Len(detail.o) > 0
               THEN Join([i \in 1..Len(detail.o) |-> DetailItemText(detail.o[i].v)], "; ")
               ELSE IF detail.t = "str" THEN detail.s
               ELSE JsonStringify(detail)
          ELSE "Categorization failed: " \o resp.statusText

\* error.message of what the try block throws on this response.
ThrownMessage(resp) ==
  IF resp.rejected THEN FetchFailedMessage
  ELSE IF ~resp.ok THEN NotOkMessage(resp)
  ELSE JsonSyntaxMessage

\* Whether the try block runs to its end on this response.
Succeeds(resp) == ~resp.rejected /\ resp.ok /\ resp.readable

\* The catch block's results: every case of the closure's csvData, marked
\* "Error", its extra fields spread over the case.
ErrorResults(cases, message) ==
  [i \in 1..Len(cases) |->
     CategorizedCase(Spread(Spread(<<>>, Obj(cases[i])), Get(cases[i], "extra_fields")),
                     Str("Error"), Str("Error"), Str("Error"),
                     Str("Error during processing."), Str(message))]

RemoveAt(seq, i) == SubSeq(seq, 1, i - 1) \o SubSeq(seq, i + 1, Len(seq))

\* The catch block's results for every case as soon as one entry of the
\* response carries an error.
StoredResultsAllOrNothing(cases, resp) ==
  IF \E i \in 1..Len(resp.results) : Truthy(resp.results[i].error)
  THEN ErrorResults(cases, "Categorization failed")
  ELSE resp.results

\* const results = await response.json(); setCategorizedResults(results)
StoredResults(cases, resp) == resp.results

\* The fetch of a suspended call settles with a response the try block
\* accepts: the results are stored as received.
CategorizeSucceeds ==
  \E i \in 1..Len(inflight) :
    \E resp \in OkResponses(RequestBody(inflight[i].csvData)) :
      /\ categorizedResults' = StoredResults(inflight[i].csvData, resp)
      /\ isCategorizing' = FALSE
      /\ inflight' = RemoveAt(inflight, i)
      /\ event' = [Event("categorizeSettled") EXCEPT !.input = resp]
      /\ UNCHANGED <<appLoad, server, props, settingsPage, csvData, categorizationError, parsing>>

\* A catch block that sends the request again and keeps waiting.
CategorizeFailsRetrying ==
  \E i \in 1..Len(inflight) :
    \E resp \in FailedResponses :
      /\ event' = [Event("categorizeSettled") EXCEPT
                     !.input = resp,
                     !.requests = <<CategorizeRequest(selectedModel, inflight[i].csvData)>>]
      /\ UNCHANGED <<appLoad, server, props, settingsPage, componentState, parsing, inflight>>

\* The fetch rejects, the response is not ok, or its body is unreadable:
\* the catch block runs.
CategorizeFails ==
  \E i \in 1..Len(inflight) :
    \E resp \in FailedResponses :
      LET message == ThrownMessage(resp)
      IN /\ categorizationError' =
              Str(IF message # "" THEN message ELSE UnknownErrorMessage)
         /\ categorizedResults' = ErrorResults(inflight[i].csvData, message)
         /\ isCategorizing' = FALSE
         /\ inflight' = RemoveAt(inflight, i)
         /\ event' = [Event("categorizeSettled") EXCEPT !.input = resp]
         /\ UNCHANGED <<appLoad, server, props, settingsPage, csvData, parsing>>


\* -------------------------------------------------- handleDownloadResults
NoResultsNotice == "No results to download."

\* ExportRow with the title written to the CaseNumber column.
ExportRowTitleAsNumber(result) ==
  LET original == result.originalCase
      known == SetAll(<<>>, <<
        Entry("CaseNumber", Get(original, "CaseTitle")),
        Entry("CaseTitle", Get(original, "CaseTitle")),
        Entry("Description", Get(original, "Description")),
        Entry("StatusReason", Get(original, "StatusReason"))>>)
  IN SetAll(Spread(known, Get(original, "extra_fields")), <<
       Entry("LLM Predicted Category", result.predictedCategory),
       Entry("LLM Predicted Resolution", result.predictedResolution),
       Entry("LLM Certainty", result.predictedCertainty),
       Entry("LLM Reasoning", result.predictedReasoning),
       Entry("Processing Error", OrEmpty(result.error))>>)

\* One row of exportData: the object literal's properties in source order.
ExportRow(result) ==
  LET original == result.originalCase
      known == SetAll(<<>>, <<
        Entry("CaseNumber", Get(original, "CaseNumber")),
        Entry("CaseTitle", Get(original, "CaseTitle")),
        Entry("Description", Get(original, "Description")),
        Entry("StatusReason", Get(original, "StatusReason"))>>)
  IN SetAll(Spread(known, Get(original, "extra_fields")), <<
       Entry("LLM Predicted Category", result.predictedCategory),
       Entry("LLM Predicted Resolution", result.predictedResolution),
       Entry("LLM Certainty", result.predictedCertainty),
       Entry("LLM Reasoning", result.predictedReasoning),
       Entry("Processing Error", OrEmpty(result.error))>>)

ExportData(results) == [i \in 1..Len(results) |-> ExportRow(results[i])]

\* The texts of the samples that Papa.unparse puts in quotes (a text with a
\* quote, a delimiter, a line break or a space at either end), with their
\* quotes doubled.
EscapedText == ("{\"code\":1}" :> "{\"\"code\"\":1}")

\* Papa.unparse's cell for a value: nothing for null and undefined, else
\* the value's text, in quotes when it needs them.
CsvCell(v) ==
  IF v.t \in {"null", "undefined"} THEN ""
  ELSE IF v.s \in DOMAIN EscapedText THEN "\"" \o EscapedText[v.s] \o "\""
  ELSE v.s

\* Papa.unparse(rows) of a non-empty array of objects: the columns are the
\* keys of the first object; every object gives one line, with its value
\* for each of these columns.
Unparse(rows) ==
  LET fields == Keys(rows[1])
  IN [header |-> [c \in 1..Len(fields) |-> CsvCell(Str(fields[c]))],
      lines |-> [r \in 1..Len(rows) |->
                   [c \in 1..Len(fields) |-> CsvCell(Get(rows[r], fields[c]))]]]

\* The text of a cell as the parser reads it: without its quotes, doubled
\* quotes single again.
CellText(cell) ==
  LET quoted == {t \in DOMAIN EscapedText : cell = "\"" \o EscapedText[t] \o "\""}
  IN IF quoted = {} THEN cell ELSE CHOOSE t \in quoted : TRUE

\* The numbers among the texts of the samples.
NumericTexts == {"0", "1", "3", "7"}

\* dynamicTyping: true
DynamicType(text) ==
  IF text \in {"true", "false"} THEN Bool(text)
  ELSE IF text \in NumericTexts THEN Num(text)
  ELSE IF text = "" THEN Null
  ELSE Str(text)

\* Papa.parse of a CSV text under header: true and dynamicTyping: true: one
\* row object per line, keyed by the header's cells.
ParseCsv(csv) ==
  [r \in 1..Len(csv.lines) |->
     ParsedRow([c \in 1..Len(csv.header) |->
                  Entry(CellText(csv.header[c]), DynamicType(CellText(csv.lines[r][c])))])]

\* const csv = Papa.unparse(exportData): the text of a file offered for
\* download, from the rows it was made of.
CsvOf(download) == Unparse(download.rows)

\* handleDownloadResults without its check for an empty result list.
HandleDownloadResultsUnguarded ==
  /\ event' = [Event("handleDownloadResults") EXCEPT
                 !.downloads = <<[filename |-> "categorized_cases.csv",
                                  rows |-> ExportData(categorizedResults)]>>]
  /\ UNCHANGED <<appLoad, server, props, settingsPage, componentState, parsing, inflight>>

\* The handler: a notice when there is nothing to export, else the rows
\* are offered as categorized_cases.csv, whose text is CsvOf's.
HandleDownloadResults ==
  /\ IF Len(categorizedResults) = 0
     THEN event' = [Event("handleDownloadResults") EXCEPT !.alerts = <<NoResultsNotice>>]
     ELSE event' = [Event("handleDownloadResults") EXCEPT
                      !.downloads = <<[filename |-> "categorized_cases.csv",
                                       rows |-> ExportData(categorizedResults)]>>]
  /\ UNCHANGED <<appLoad, server, props, settingsPage, componentState, parsing, inflight>>

\* ------------------------------------------------------------ the page
\* The buttons' disabled attributes.
\* A button that stays enabled while a request is in flight.
CategorizeDisabledIgnoringBusy ==
  \/ Len(csvData) = 0
  \/ Len(productCategories) = 0
  \/ Len(resolutionTypes) = 0
  \/ selectedModel = ""
CategorizeDisabled ==
  \/ isCategorizing
  \/ Len(csvData) = 0
  \/ Len(productCategories) = 0
  \/ Len(resolutionTypes) = 0
  \/ selectedModel = ""
DownloadDisabled == Len(categorizedResults) = 0

ClickCategorize == ~CategorizeDisabled /\ HandleCategorize
ClickDownload == ~DownloadDisabled /\ HandleDownloadResults

\* A direct call of a handler, whatever the buttons show.
CallHandleCategorize == Len(inflight) < MaxInflight /\ HandleCategorize
CallHandleDownloadResults == HandleDownloadResults

\* The props App passes down: the lists it loaded and the model it holds.
SampleCategory == [name |-> "Access Issue", description |-> "Login and permissions"]
SampleResolution == [name |-> "Reset Credentials", description |-> "Password reset"]
ModelIds == {"openai", "gemini", "ollama"}

InitComponent ==
  /\ csvData = <<>>
  /\ categorizedResults = <<>>
  /\ isCategorizing = FALSE
  /\ categorizationError = Null
  /\ parsing = 0
  /\ inflight = <<>>
  /\ event = Event("mount")

\* The settings page as it mounts, with no save under way.
InitSettingsPage ==
  /\ showProductCategories = FALSE
  /\ showResolutionTypes = FALSE
  /\ saves = <<>>

\* App once fetchInitialData has stored the lists the backend holds.
InitLoaded ==
  /\ loadingInitialData = FALSE
  /\ initialDataError = Null
  /\ server = [categories |-> productCategories, resolutions |-> resolutionTypes]

\* The page as App mounts it after the settings have loaded.
Init ==
  /\ productCategories \in {<<>>, <<SampleCategory>>}
  /\ resolutionTypes \in {<<>>, <<SampleResolution>>}
  /\ selectedModel \in ModelIds
  /\ InitComponent
  /\ InitSettingsPage
  /\ InitLoaded

\* The component given any props, as a caller or a test may mount it.
InitHandlers ==
  /\ productCategories \in {<<>>, <<SampleCategory>>}
  /\ resolutionTypes \in {<<>>, <<SampleResolution>>}
  /\ selectedModel \in {"", "openai"}
  /\ InitComponent
  /\ InitLoaded
  /\ InitSettingsPage

ParseCompletePage == ParseComplete(PageOutcomes)
ParseCompleteAny == ParseComplete(ParsedOutcomes)
ParseCompleteCall == ParseComplete(CallOutcomes)

Next ==
  \/ HandleFileUploadNoFile
  \/ HandleFileUpload
  \/ ParseCompletePage
  \/ ParseError
  \/ ClickCategorize
  \/ CategorizeSucceeds
  \/ CategorizeFails
  \/ ClickDownload

\* The handlers called directly, in any order.
NextHandlers ==
  \/ HandleFileUploadNoFile
  \/ HandleFileUpload
  \/ ParseCompleteCall
  \/ ParseError
  \/ CallHandleCategorize
  \/ CategorizeSucceeds
  \/ CategorizeFails
  \/ CallHandleDownloadResults

\* The file input alone: selections and the parser's callbacks.
NextUpload ==
  \/ HandleFileUploadNoFile
  \/ HandleFileUpload
  \/ ParseCompleteAny
  \/ ParseError

\* ------------------------------------------------------ the settings page
TaxonomyTypes == {"product", "resolution"}
CategoryKeys == {"name", "description"}
\* The text a field holds after typing: a name, and a description that is
\* cleared again.
EditTexts(key) == IF key = "name" THEN {"Billing"} ELSE {""}

ListOf(type) == IF type = "product" THEN productCategories ELSE resolutionTypes
Shown(type) == IF type = "product" THEN showProductCategories ELSE showResolutionTypes
Endpoint(type) == IF type = "product" THEN "categories" ELSE "resolutions"

\* setProductCategories(list) or setResolutionTypes(list)
SetList(type, list) ==
  IF type = "product"
  THEN productCategories' = list /\ UNCHANGED resolutionTypes
  ELSE resolutionTypes' = list /\ UNCHANGED productCategories

\* fetch(`${BASE_URL}/${endpoint}`, {method: "POST", body: JSON.stringify(data)})
SaveRequest(endpoint, data) ==
  [url |-> "/" \o endpoint,
   method |-> "POST",
   headers |-> <<Entry("Content-Type", Str("application/json"))>>,
   body |-> data]

\* saveToServer up to its await, called by the handler op.
SaveToServer(op, input, endpoint, data) ==
  /\ Len(saves) < MaxSaves
  /\ saves' = Append(saves, [endpoint |-> endpoint, data |-> data])
  /\ event' = [Event(op) EXCEPT
                 !.input = input,
                 !.requests = <<SaveRequest(endpoint, data)>>]

SaveFailedAlert(endpoint) == "Failed to save " \o endpoint \o ". Check console for details."

\* POST /categories and POST /resolutions: the list the backend holds
\* for the endpoint is replaced by the list posted.
Replaced(held, endpoint, data) == [held EXCEPT ![endpoint] = data]

\* The fetch of a suspended save answers ok, the backend having stored the
\* list: the save is logged.
SaveSucceeds ==
  \E i \in 1..Len(saves) :
    /\ saves' = RemoveAt(saves, i)
    /\ server' = Replaced(server, saves[i].endpoint, saves[i].data)
    /\ event' = [Event("saveSettled") EXCEPT !.input = saves[i].endpoint]
    /\ UNCHANGED <<appLoad, props, componentState, parsing, inflight,
                   showProductCategories, showResolutionTypes>>

\* The fetch rejects or answers with a non-ok status: the user is alerted.
SaveFails ==
  \E i \in 1..Len(saves) :
    /\ saves' = RemoveAt(saves, i)
    /\ event' = [Event("saveSettled") EXCEPT
                   !.input = saves[i].endpoint,
                   !.alerts = <<SaveFailedAlert(saves[i].endpoint)>>]
    /\ UNCHANGED <<appLoad, server, props, componentState, parsing, inflight,
                   showProductCategories, showResolutionTypes>>

\* The +/- button of a section.
ToggleSection(type) ==
  /\ IF type = "product"
     THEN /\ showProductCategories' = ~showProductCategories
          /\ UNCHANGED showResolutionTypes
     ELSE /\ showResolutionTypes' = ~showResolutionTypes
          /\ UNCHANGED showProductCategories
  /\ event' = [Event("toggleSection") EXCEPT !.input = type]
  /\ UNCHANGED <<appLoad, server, props, componentState, parsing, inflight, saves>>

\* onChange of a field of entry index: the list is copied, the field set.
UpdateCategory(index, key, value, type) ==
  /\ Shown(type)
  /\ index \in 1..Len(ListOf(type))
  /\ SetList(type, [ListOf(type) EXCEPT ![index][key] = value])
  /\ event' = [Event("updateCategory") EXCEPT !.input = type]
  /\ UNCHANGED <<appLoad, server, selectedModel, componentState, parsing, inflight, settingsPage>>

\* onBlur of a field: the list of the type is saved as it stands.
HandleBlur(type) ==
  /\ Shown(type)
  /\ Len(ListOf(type)) > 0
  /\ SaveToServer("handleBlur", type, Endpoint(type), ListOf(type))
  /\ UNCHANGED <<appLoad, server, props, componentState, parsing, inflight,
                 showProductCategories, showResolutionTypes>>

\* addCategory that posts the new entry in place of the list.
AddCategoryPostingItem(type) ==
  LET newItem == [name |-> "", description |-> ""]
      updated == Append(ListOf(type), newItem)
  IN /\ Shown(type)
     /\ Len(ListOf(type)) < MaxEntries
     /\ SetList(type, updated)
     /\ SaveToServer("addCategory", type, Endpoint(type), <<newItem>>)
     /\ UNCHANGED <<appLoad, server, selectedModel, componentState, parsing, inflight,
                    showProductCategories, showResolutionTypes>>

\* The add button: a blank entry is appended and the new list saved.
AddCategory(type) ==
  LET newItem == [name |-> "", description |-> ""]
      updated == Append(ListOf(type), newItem)
  IN /\ Shown(type)
     /\ Len(ListOf(type)) < MaxEntries
     /\ SetList(type, updated)
     /\ SaveToServer("addCategory", type, Endpoint(type), updated)
     /\ UNCHANGED <<appLoad, server, selectedModel, componentState, parsing, inflight,
                    showProductCategories, showResolutionTypes>>

\* The Remove button of entry index: the entry is spliced out and the new
\* list saved.
RemoveCategory(index, type) ==
  LET updated == RemoveAt(ListOf(type), index)
  IN /\ Shown(type)
     /\ index \in 1..Len(ListOf(type))
     /\ SetList(type, updated)
     /\ SaveToServer("removeCategory", type, Endpoint(type), updated)
     /\ UNCHANGED <<appLoad, server, selectedModel, componentState, parsing, inflight,
                    showProductCategories, showResolutionTypes>>

\* A model select whose options carry the display names as values.
SelectModelByName ==
  \E name \in {"OpenAI (GPT-4.1 nano)", "Google Gemini (gemini-pro)", "Local Ollama (llama3)"} :
    /\ name # selectedModel
    /\ selectedModel' = name
    /\ event' = [Event("selectModel") EXCEPT !.input = name]
    /\ UNCHANGED <<appLoad, server, productCategories, resolutionTypes, componentState,
                   parsing, inflight, settingsPage>>

\* onChange of the model select: the value of the option chosen, one of
\* the ids of MODELS.
SelectModel ==
  \E id \in ModelIds :
    /\ id # selectedModel
    /\ selectedModel' = id
    /\ event' = [Event("selectModel") EXCEPT !.input = id]
    /\ UNCHANGED <<appLoad, server, productCategories, resolutionTypes, componentState,
                   parsing, inflight, settingsPage>>

\* The settings page as App mounts it over a taxonomy that is still empty,
\* with the model App starts with.
InitSettings ==
  /\ productCategories = <<>>
  /\ resolutionTypes = <<>>
  /\ selectedModel = "openai"
  /\ InitComponent
  /\ InitSettingsPage
  /\ InitLoaded

NextSettings ==
  \/ SelectModel
  \/ \E type \in TaxonomyTypes : ToggleSection(type)
  \/ \E type \in TaxonomyTypes, index \in 1..MaxEntries, key \in CategoryKeys :
       \E value \in EditTexts(key) : UpdateCategory(index, key, value, type)
  \/ \E type \in TaxonomyTypes : HandleBlur(type)
  \/ \E type \in TaxonomyTypes : AddCategory(type)
  \/ \E type \in TaxonomyTypes, index \in 1..MaxEntries : RemoveCategory(index, type)
  \/ SaveSucceeds
  \/ SaveFails

\* ------------------------------------------------------------------ App
\* What a fetch of the initial load settles with: a rejection, or a
\* response with its status and the list its body holds, if it is JSON.
LoadResponse(rejected, ok, status, readable, data) ==
  [rejected |-> rejected, ok |-> ok, status |-> status,
   readable |-> readable, data |-> data]

\* GET /categories and GET /resolutions: the list the backend holds.
Held(endpoint) == LoadResponse(FALSE, TRUE, "200", TRUE, server[endpoint])

LoadResponses(endpoint) ==
  { Held(endpoint),
    LoadResponse(TRUE, FALSE, "", FALSE, <<>>),
    LoadResponse(FALSE, FALSE, "500", TRUE, <<>>),
    LoadResponse(FALSE, TRUE, "200", FALSE, <<>>) }

\* Both responses are ok and both bodies are read.
LoadSucceeds(categoriesRes, resolutionsRes) ==
  \A res \in {categoriesRes, resolutionsRes} :
    ~res.rejected /\ res.ok /\ res.readable

\* The message of the error the try block ends with: the rejection of
\* Promise.all, the status check, or json() of a body that is not JSON.
LoadThrownMessage(categoriesRes, resolutionsRes) ==
  IF categoriesRes.rejected \/ resolutionsRes.rejected THEN FetchFailedMessage
  ELSE IF ~categoriesRes.ok \/ ~resolutionsRes.ok
       THEN "HTTP error! status: " \o categoriesRes.status
              \o " / " \o resolutionsRes.status
       ELSE JsonSyntaxMessage

InitialDataErrorMessage(message) ==
  "Failed to load initial settings: " \o message
    \o ". Please ensure your backend is running."

\* A load that stores each list as soon as its own response is read.
FetchInitialDataOneByOne ==
  /\ loadingInitialData
  /\ \E categoriesRes \in LoadResponses("categories"),
        resolutionsRes \in LoadResponses("resolutions") :
       /\ productCategories' =
            IF LoadSucceeds(categoriesRes, categoriesRes)
            THEN categoriesRes.data ELSE productCategories
       /\ resolutionTypes' =
            IF LoadSucceeds(resolutionsRes, resolutionsRes)
            THEN resolutionsRes.data ELSE resolutionTypes
       /\ initialDataError' =
            IF LoadSucceeds(categoriesRes, resolutionsRes) THEN Null
            ELSE Str(InitialDataErrorMessage(
                       LoadThrownMessage(categoriesRes, resolutionsRes)))
       /\ event' = [Event("fetchInitialData") EXCEPT
                      !.input = <<categoriesRes, resolutionsRes>>]
  /\ loadingInitialData' = FALSE
  /\ UNCHANGED <<server, selectedModel, componentState, parsing, inflight, settingsPage>>

\* fetchInitialData from the point where Promise.all settles: both lists
\* are stored, or the catch block records the error; finally ends the
\* loading.
FetchInitialData ==
  /\ loadingInitialData
  /\ \E categoriesRes \in LoadResponses("categories"),
        resolutionsRes \in LoadResponses("resolutions") :
       /\ IF LoadSucceeds(categoriesRes, resolutionsRes)
          THEN /\ productCategories' = categoriesRes.data
               /\ resolutionTypes' = resolutionsRes.data
               /\ UNCHANGED initialDataError
          ELSE /\ initialDataError' =
                    Str(InitialDataErrorMessage(
                          LoadThrownMessage(categoriesRes, resolutionsRes)))
               /\ UNCHANGED <<productCategories, resolutionTypes>>
       /\ event' = [Event("fetchInitialData") EXCEPT
                      !.input = <<categoriesRes, resolutionsRes>>]
  /\ loadingInitialData' = FALSE
  /\ UNCHANGED <<server, selectedModel, componentState, parsing, inflight, settingsPage>>

\* App renders its routes: the load is over and left no error.
Rendered == ~loadingInitialData /\ ~Truthy(initialDataError)

\* App as it mounts, over a backend holding any of the sample lists.
InitApp ==
  /\ productCategories = <<>>
  /\ resolutionTypes = <<>>
  /\ selectedModel = "openai"
  /\ loadingInitialData = TRUE
  /\ initialDataError = Null
  /\ server \in [categories : {<<>>, <<SampleCategory>>},
                  resolutions : {<<>>, <<SampleResolution>>}]
  /\ InitComponent
  /\ InitSettingsPage

\* The categorization page as its route mounts it.  The settings route
\* replaces it: while the model select is in use the page is unmounted, and
\* it mounts anew afterwards.
PageFresh ==
  /\ csvData = <<>>
  /\ categorizedResults = <<>>
  /\ ~isCategorizing
  /\ categorizationError = Null
  /\ parsing = 0
  /\ inflight = <<>>

\* The load, then the categorization page, the route App opens on, and
\* the model select of the settings route.
NextApp ==
  \/ FetchInitialData
  \/ Rendered /\ Next
  \/ Rendered /\ PageFresh /\ SelectModel

Spec == Init /\ [][Next]_vars
AppSpec == InitApp /\ [][NextApp]_vars
SettingsSpec == InitSettings /\ [][NextSettings]_vars
UploadSpec == Init /\ [][NextUpload]_vars
HandlerSpec == InitHandlers /\ [][NextHandlers]_vars


\* ===================================================================
\* Properties
\* ===================================================================
RowHasHeaders(row) == \A i \in 1..Len(KnownFields) : HasKey(row, KnownFields[i])
CellsTruthy(row) == \A i \in 1..Len(KnownFields) : Truthy(Get(row, KnownFields[i]))
ExtraCells(row) == SelectSeq(row, LAMBDA cell : ~IsKnownField(cell.k))

\* The case is the row's: the recognized fields are the cells' text, and
\* extra_fields holds exactly the other cells, names and values as parsed.
CaseOfRow(caseItem, row) ==
  /\ \A i \in 1..Len(KnownFields) :
       /\ Get(caseItem, KnownFields[i]).t = "str"
       /\ Get(caseItem, KnownFields[i]).s = Get(row, KnownFields[i]).s
  /\ Get(caseItem, "extra_fields") = Obj(ExtraCells(row))

\* C1 as claimed: after a completed parse of a file whose rows all have the
\* four recognized headers, csvData holds one case per data row, in row
\* order, each with the row's other columns verbatim in extra_fields.
C1_OneCasePerRow ==
  (event.op = "complete" /\ \A i \in 1..Len(event.input) : RowHasHeaders(event.input[i]))
    => /\ Len(csvData) = Len(event.input)
       /\ \A i \in 1..Len(csvData) : CaseOfRow(csvData[i], event.input[i])

\* C1 amended: after a completed parse, csvData holds one case per data row
\* whose four recognized cells are all truthy (rows with a blank, zero or
\* false recognized cell are skipped), in row order, each with the row's
\* other columns verbatim in extra_fields, values unchanged.
C1_OneCasePerCompleteRow ==
  event.op = "complete"
    => LET kept == SelectSeq(event.input, CellsTruthy)
       IN /\ Len(csvData) = Len(kept)
          /\ \A i \in 1..Len(csvData) : CaseOfRow(csvData[i], kept[i])

\* A parse of two rows that kept the typed row, with its numeric extra
\* column, and skipped the other.
C1_Witness ==
  /\ event.op = "complete"
  /\ Len(event.input) = 2
  /\ Len(csvData) = 1
  /\ Get(Get(csvData[1], "extra_fields").o, "2024") = Num("3")


\* The columns a case came with: the recognized fields, then the extra ones.
OriginalColumns(caseItem) ==
  [i \in 1..Len(KnownFields) |-> Entry(KnownFields[i], Get(caseItem, KnownFields[i]))]
    \o OwnEntries(Get(caseItem, "extra_fields"))

\* The result's originalCase has every column of the case with its value,
\* beside the recognized fields or under extra_fields.
KeepsOriginalFields(result, caseItem) ==
  \A i \in 1..Len(OriginalColumns(caseItem)) :
    LET column == OriginalColumns(caseItem)[i]
        nested == Get(result.originalCase, "extra_fields")
    IN \/ Get(result.originalCase, column.k) = column.v
       \/ nested.t = "obj" /\ Get(nested.o, column.k) = column.v

Settled == event.op = "categorizeSettled"

\* C2 as claimed: the results a settled categorize call stores follow the
\* order of csvData: as many results as cases, the result at index i being
\* that of case i.
C2_ResultsInCsvDataOrder ==
  Settled
    => /\ Len(categorizedResults) = Len(csvData)
       /\ \A i \in 1..Len(categorizedResults) :
            KeepsOriginalFields(categorizedResults[i], csvData[i])

\* C3 as claimed: when the request fails as a whole, categorizedResults
\* holds one entry per case of csvData, in order, each with the case's
\* original fields, "Error" as category and resolution and a non-empty error.
C3_FailureKeepsEveryCase ==
  (Settled /\ ~Succeeds(event.input))
    => /\ Len(categorizedResults) = Len(csvData)
       /\ \A i \in 1..Len(categorizedResults) :
            /\ KeepsOriginalFields(categorizedResults[i], csvData[i])
            /\ categorizedResults[i].predictedCategory = Str("Error")
            /\ categorizedResults[i].predictedResolution = Str("Error")
            /\ categorizedResults[i].error.t = "str"
            /\ categorizedResults[i].error.s # ""

\* C4: when the request succeeds with a response in which some cases carry
\* an error, the step that stores it keeps every entry of the response as
\* received (the failed ones with their error, the others with their
\* prediction and no error) and does not set categorizationError.
C4_OneFailureDoesNotAbort ==
  [][(event'.op = "categorizeSettled" /\ Succeeds(event'.input))
       => /\ categorizationError' = categorizationError
          /\ Len(categorizedResults') = Len(event'.input.results)
          /\ \A i \in 1..Len(categorizedResults') :
               LET answer == event'.input.results[i]
               IN /\ Truthy(categorizedResults'[i].error) <=> Truthy(answer.error)
                  /\ categorizedResults'[i].predictedCategory = answer.predictedCategory
                  /\ categorizedResults'[i].predictedResolution = answer.predictedResolution
                  /\ categorizedResults'[i].originalCase = answer.originalCase]_vars

\* Two cases answered, the first failed and the second predicted, and no
\* batch error.
C4_Witness ==
  /\ Settled
  /\ Succeeds(event.input)
  /\ Len(categorizedResults) = 2
  /\ Truthy(categorizedResults[1].error)
  /\ categorizedResults[1].predictedCategory = Str("Error")
  /\ ~Truthy(categorizedResults[2].error)
  /\ categorizedResults[2].predictedCategory = Str("Access Issue")
  /\ categorizationError = Null

\* C5: a handleCategorize call made with no cases, an empty category list,
\* an empty resolution list or no model sends no request, sets
\* categorizationError and changes nothing else.
C5_NoRequestWithoutConfiguration ==
  [][(/\ event'.op = "handleCategorize"
      /\ \/ Len(csvData) = 0
         \/ Len(productCategories) = 0
         \/ Len(resolutionTypes) = 0
         \/ selectedModel = "")
       => /\ event'.requests = <<>>
          /\ categorizationError' # Null
          /\ UNCHANGED <<csvData, categorizedResults, isCategorizing, inflight, parsing, props>>]_vars

\* A call with cases and both taxonomy lists loaded, rejected because no
\* model is selected.
C5_Witness ==
  /\ event.op = "handleCategorize"
  /\ event.requests = <<>>
  /\ Len(csvData) > 0
  /\ Len(productCategories) > 0
  /\ Len(resolutionTypes) > 0
  /\ selectedModel = ""
  /\ categorizationError = Str(ModelMissingMessage)


\* The configuration a rejection message names, and the configuration that
\* is missing.
ConfigurationNamed(message) ==
  CASE message = TaxonomyMissingMessage -> {"categories", "resolutions"}
    [] message = ModelMissingMessage -> {"model"}
    [] OTHER -> {}
MissingTaxonomy ==
  (IF Len(productCategories) = 0 THEN {"categories"} ELSE {})
    \cup (IF Len(resolutionTypes) = 0 THEN {"resolutions"} ELSE {})
MissingConfiguration ==
  MissingTaxonomy \cup (IF selectedModel = "" THEN {"model"} ELSE {})
RejectedForConfiguration ==
  /\ event.op = "handleCategorize"
  /\ event.requests = <<>>
  /\ Len(csvData) > 0

\* C6 as claimed: a call rejected with exactly one of the category list,
\* the resolution list and the model missing gets a message that names
\* that one and no other.
C6_MessageNamesTheMissingOne ==
  (RejectedForConfiguration /\ Cardinality(MissingConfiguration) = 1)
    => ConfigurationNamed(categorizationError.s) = MissingConfiguration

\* C6 amended: the message tells a missing taxonomy from a missing model,
\* not the two lists from each other: with a list empty it is the one
\* message that names both lists, and the model is not looked at; with both
\* lists filled it names the model alone.
C6_MessageNamesTheMissingGroup ==
  RejectedForConfiguration
    => LET named == ConfigurationNamed(categorizationError.s)
       IN IF MissingTaxonomy # {}
          THEN named = {"categories", "resolutions"}
          ELSE named = {"model"} /\ MissingConfiguration = {"model"}

\* A call rejected with the resolution list alone empty.
C6_Witness ==
  /\ RejectedForConfiguration
  /\ MissingConfiguration = {"resolutions"}
  /\ categorizationError = Str(TaxonomyMissingMessage)

Exported == event.op = "handleDownloadResults" /\ event.downloads # <<>>
ExportedRows == event.downloads[1].rows
ExportLabels == <<"LLM Predicted Category", "LLM Predicted Resolution",
                  "LLM Certainty", "LLM Reasoning", "Processing Error">>

\* C7 as claimed: every exported row has every original column of its
\* case, recognized and extra, with its original value, and the four
\* predictions and the error under the five export labels.
C7_ExportKeepsOriginalColumns ==
  Exported
    => \A i \in 1..Len(ExportedRows) :
         LET result == categorizedResults[i]
             columns == OriginalColumns(result.originalCase)
         IN /\ \A j \in 1..Len(columns) :
                 Get(ExportedRows[i], columns[j].k) = columns[j].v
            /\ Get(ExportedRows[i], "LLM Predicted Category") = result.predictedCategory
            /\ Get(ExportedRows[i], "LLM Predicted Resolution") = result.predictedResolution
            /\ Get(ExportedRows[i], "LLM Certainty") = result.predictedCertainty
            /\ Get(ExportedRows[i], "LLM Reasoning") = result.predictedReasoning
            /\ Get(ExportedRows[i], "Processing Error") = OrEmpty(result.error)

\* C8 as claimed: the columns of an exported row are the identifier and
\* the other recognized fields in their fixed order, then the extra fields
\* in their order, then the four predictions, then the error column, which
\* is empty exactly when the result has no error.
C8_ColumnLayout ==
  Exported
    => \A i \in 1..Len(ExportedRows) :
         LET result == categorizedResults[i]
             row == ExportedRows[i]
         IN /\ Keys(row) = KnownFields
                             \o Keys(OwnEntries(Get(result.originalCase, "extra_fields")))
                             \o ExportLabels
            /\ row[Len(row)].k = "Processing Error"
            /\ row[Len(row)].v = Str("") <=> ~Truthy(result.error)

\* The Case-ID rule: the first field whose name, lower-cased and stripped
\* of whitespace, is an identifier name gives the identifier; else the
\* first 30 characters of the title, with an ellipsis when it is longer;
\* else a placeholder.  The tables hold the names and titles of the samples.
CaseIdNames == {"caseid", "case_id", "id", "ticketid", "ticket_id"}
NormalizedName(key) ==
  CASE key = "CaseNumber" -> "casenumber"
    [] key = "CaseTitle" -> "casetitle"
    [] key = "Description" -> "description"
    [] key = "StatusReason" -> "statusreason"
    [] key = "Region" -> "region"
    [] key = "Ticket ID" -> "ticketid"
    [] key = "Processing Error" -> "processingerror"
    [] OTHER -> key
TruncatedTitle(title) ==
  IF title = "Login fails after update causing major issues"
  THEN "Login fails after update causi..."
  ELSE title
ResolveCaseId(caseItem) ==
  LET columns == OriginalColumns(caseItem)
      named == {i \in 1..Len(columns) : NormalizedName(columns[i].k) \in CaseIdNames}
      title == Get(caseItem, "CaseTitle")
  IN IF named # {}
     THEN columns[CHOOSE i \in named : \A j \in named : i <= j].v
     ELSE IF Truthy(title) THEN Str(TruncatedTitle(title.s))
     ELSE Str("Unknown Case")

\* C9 as claimed: the identifier an exported row carries for its case is
\* the one the Case-ID rule resolves.
C9_IdentifierByCaseIdRule ==
  Exported
    => \A i \in 1..Len(ExportedRows) :
         Get(ExportedRows[i], "CaseNumber") = ResolveCaseId(categorizedResults[i].originalCase)

\* C9 amended: an exported row identifies its case by the CaseNumber column
\* alone, which holds the case's CaseNumber unchanged; no column is derived
\* from field names or from the title, and a column such as "Ticket ID" is
\* exported as the extra column it is.
C9_IdentifierIsCaseNumber ==
  Exported
    => \A i \in 1..Len(ExportedRows) :
         LET original == categorizedResults[i].originalCase
             extras == OwnEntries(Get(original, "extra_fields"))
             row == ExportedRows[i]
         IN /\ Get(row, "CaseNumber") = Get(original, "CaseNumber")
            /\ \A j \in 1..Len(row) :
                 \/ IsKnownField(row[j].k)
                 \/ HasKey(extras, row[j].k)
                 \/ \E l \in 1..Len(ExportLabels) : ExportLabels[l] = row[j].k
            /\ HasKey(extras, "Ticket ID")
                 => Get(row, "Ticket ID") = Get(extras, "Ticket ID")

\* An export of the case with the "Ticket ID" column: its identifier is its
\* CaseNumber, C1, not T-123.
C9_Witness ==
  /\ Exported
  /\ Get(ExportedRows[1], "Ticket ID") = Str("T-123")
  /\ Get(ExportedRows[1], "CaseNumber") = Str("C1")

\* C10: a handleDownloadResults call with no results shows the notice,
\* offers no file and changes no state.
C10_ExportOfNothingIsNoOp ==
  [][(event'.op = "handleDownloadResults" /\ Len(categorizedResults) = 0)
       => /\ event'.alerts = <<NoResultsNotice>>
          /\ event'.downloads = <<>>
          /\ event'.requests = <<>>
          /\ UNCHANGED <<props, settingsPage, componentState, parsing, inflight>>]_vars

\* The notice shown with cases loaded and no results yet.
C10_Witness ==
  /\ event.op = "handleDownloadResults"
  /\ event.alerts = <<NoResultsNotice>>
  /\ event.downloads = <<>>
  /\ Len(csvData) > 0
  /\ Len(categorizedResults) = 0

\* The parser reported the file as malformed: through the error callback,
\* or through results.errors of the complete callback.
ReportedUnparseable ==
  \/ event.op = "error"
  \/ event.op = "complete" /\ event.errors # <<>>

\* C11: whenever the parser reports the file as unparseable, csvData ends up
\* empty and categorizationError holds the parse error message.
C11_MalformedFileRejected ==
  ReportedUnparseable
    => /\ csvData = <<>>
       /\ categorizationError = Str(ParseFailedMessage)

\* The rows of a parse that hold no case: a recognized cell is missing,
\* blank, zero or false.
SkippedOf(rows) == {i \in 1..Len(rows) : ~CellsTruthy(rows[i])}

\* C12 as claimed: after a parse that skipped rows, what the handler
\* surfaces tells how many rows it skipped: no parse that skipped another
\* number of rows surfaces the same categorizationError.
C12_SkippedCountSurfaced ==
  (event.op = "complete" /\ SkippedOf(event.input) # {})
    => \A other \in ParsedOutcomes :
         other.error = categorizationError
           => Cardinality(SkippedOf(other.rows)) = Cardinality(SkippedOf(event.input))

\* C12 amended: a parse that skipped rows sets categorizationError to one
\* of two fixed messages, "no valid cases" when no case is left and "some
\* rows were skipped" otherwise, whatever the number of skipped rows, and
\* writes one console warning per skipped row, by row number; a parse that
\* skipped none sets no error and warns about nothing.
C12_SkippedRowsReported ==
  event.op = "complete"
    => /\ event.warned = Ascending(SkippedOf(event.input))
       /\ event.alerts = <<>>
       /\ categorizationError =
            (IF SkippedOf(event.input) = {} THEN Null
             ELSE IF Len(csvData) = 0 THEN Str(NoValidCasesMessage)
             ELSE Str(RowsSkippedMessage))

\* A parse of two rows that skipped the second and kept the first.
C12_Witness ==
  /\ event.op = "complete"
  /\ SkippedOf(event.input) = {2}
  /\ Len(csvData) = 1
  /\ event.warned = <<2>>
  /\ categorizationError = Str(RowsSkippedMessage)

\* C13: in every state, every case of csvData has the four recognized
\* fields as strings, whatever type the parser gave the cells, and its
\* extra_fields is an object whose entries are cells of a parsed row: a
\* column that is not a recognized one, under the header's name, with the
\* value as parsed (a number, a boolean, null or a string).
C13_CasesWellFormed ==
  \A i \in 1..Len(csvData) :
    LET extras == Get(csvData[i], "extra_fields")
    IN /\ \A f \in 1..Len(KnownFields) :
            /\ HasKey(csvData[i], KnownFields[f])
            /\ Get(csvData[i], KnownFields[f]).t = "str"
       /\ extras.t = "obj"
       /\ \E row \in SampleRows :
            /\ \A f \in 1..Len(KnownFields) :
                 Get(csvData[i], KnownFields[f]).s = Get(row, KnownFields[f]).s
            /\ Keys(extras.o) = Keys(ExtraCells(row))
            /\ \A j \in 1..Len(extras.o) : extras.o[j].v = Get(row, extras.o[j].k)

\* The case of the typed row: its number 7 and its status true are held
\* as the strings "7" and "true", its extra column "2024" as the number 3.
C13_Witness ==
  /\ Len(csvData) > 0
  /\ Get(csvData[1], "CaseNumber") = Str("7")
  /\ Get(csvData[1], "StatusReason") = Str("true")
  /\ Get(Get(csvData[1], "extra_fields").o, "2024") = Num("3")
  /\ Get(Get(csvData[1], "extra_fields").o, "Processing Error") = Str("old")

\* A taxonomy list and a request body as JSON values.
JsonList(list) ==
  Arr([i \in 1..Len(list) |->
         Entry(ToString(i - 1),
               Obj(<<Entry("name", Str(list[i].name)),
                     Entry("description", Str(list[i].description))>>))])
JsonBody(body) ==
  Arr([i \in 1..Len(body) |-> Entry(ToString(i - 1), Obj(body[i]))])

\* What a request carries: its body, the values of its headers and the
\* value of the model_name parameter of its URL.
Carried(req) ==
  {JsonBody(req.body)}
    \cup {req.headers[i].v : i \in 1..Len(req.headers)}
    \cup {Str(m) : m \in {n \in ModelIds \cup {""} : req.url = "/categorize?model_name=" \o n}}

RequestSent == event.op = "handleCategorize" /\ event.requests # <<>>

\* The request element of a case has the case's columns and no other.
CaseSent(element, caseItem) ==
  /\ Len(element) = Len(OriginalColumns(caseItem))
  /\ \A j \in 1..Len(OriginalColumns(caseItem)) :
       Get(element, OriginalColumns(caseItem)[j].k) = OriginalColumns(caseItem)[j].v

\* C14 as claimed: the request handleCategorize sends carries the cases,
\* the current product-category list, the current resolution-type list and
\* the selected model.
C14_RequestCarriesSnapshot ==
  RequestSent
    => \A r \in 1..Len(event.requests) :
         LET req == event.requests[r]
         IN /\ Len(req.body) = Len(csvData)
            /\ Str(selectedModel) \in Carried(req)
            /\ JsonList(productCategories) \in Carried(req)
            /\ JsonList(resolutionTypes) \in Carried(req)

\* C14 amended: the request carries the cases of csvData, one body element
\* per case in order with the case's columns, and the selected model as the
\* model_name parameter of its URL; it carries neither taxonomy list.
C14_RequestCarriesCasesAndModel ==
  RequestSent
    => /\ Len(event.requests) = 1
       /\ LET req == event.requests[1]
          IN /\ req.method = "POST"
             /\ req.url = "/categorize?model_name=" \o selectedModel
             /\ Len(req.body) = Len(csvData)
             /\ \A i \in 1..Len(csvData) : CaseSent(req.body[i], csvData[i])
             /\ Carried(req) = {JsonBody(req.body), Str("application/json"),
                                Str(selectedModel)}
             /\ JsonList(productCategories) \notin Carried(req)
             /\ JsonList(resolutionTypes) \notin Carried(req)

\* A request for two cases with gemini selected and both lists filled.
C14_Witness ==
  /\ RequestSent
  /\ selectedModel = "gemini"
  /\ Len(productCategories) > 0
  /\ Len(resolutionTypes) > 0
  /\ Len(event.requests[1].body) = 2

\* C15: a handleCategorize call that passes its checks sends exactly one
\* request, whose body covers every case of csvData, and becomes the one
\* more call awaiting its response; the step that settles a call, with a
\* response or a failure, sends no request and ends that call; no other
\* step sends a request.
C15_OneRequestPerCall ==
  [][/\ (/\ event'.op = "handleCategorize"
          /\ Len(csvData) > 0
          /\ Len(productCategories) > 0
          /\ Len(resolutionTypes) > 0
          /\ selectedModel # "")
         => /\ Len(event'.requests) = 1
            /\ Len(event'.requests[1].body) = Len(csvData)
            /\ Len(inflight') = Len(inflight) + 1
     /\ event'.op = "categorizeSettled"
         => /\ event'.requests = <<>>
            /\ Len(inflight') = Len(inflight) - 1
     /\ event'.requests # <<>> => event'.op = "handleCategorize"]_vars

\* A call for two cases whose request was rejected by the network: it has
\* ended with the error results, and nothing was sent again.
C15_Witness ==
  /\ Settled
  /\ event.input.rejected
  /\ event.requests = <<>>
  /\ inflight = <<>>
  /\ ~isCategorizing
  /\ Len(categorizedResults) = 2
  /\ categorizationError = Str(FetchFailedMessage)

\* A settled call whose response arrived and was not a success, and the
\* detail member of its JSON body (undefined when there is none).
NotOkSettled == Settled /\ ~event.input.rejected /\ ~event.input.ok
DetailOf(resp) ==
  IF resp.readable /\ resp.json.t = "obj" THEN Get(resp.json.o, "detail") ELSE Undefined
DetailItems(detail) ==
  Join([i \in 1..Len(detail.o) |-> DetailItemText(detail.o[i].v)], "; ")
\* The ways a message can give the HTTP status text.
StatusTexts(resp) ==
  {resp.statusText,
   "Categorization failed: " \o resp.statusText,
   "Categorization failed: " \o resp.status \o " - " \o resp.statusText}

\* C16 as claimed: after a non-success response categorizationError is the
\* detail when the detail is a string, the "loc: msg" of every element when
\* it is an array, and the HTTP status text in every other case.
C16_DetailOrStatusText ==
  NotOkSettled
    => LET detail == DetailOf(event.input)
       IN IF detail.t = "str" THEN categorizationError = Str(detail.s)
          ELSE IF detail.t = "arr" /\ Len(detail.o) > 0
          THEN categorizationError = Str(DetailItems(detail))
          ELSE categorizationError.s \in StatusTexts(event.input)

\* C16 amended: after a non-success response categorizationError is the
\* detail when it is a non-empty string; the "loc: msg" of every element,
\* joined by "; ", when it is a non-empty array; the JSON text of the
\* detail when it is any other truthy value (an object, an empty array);
\* and "Categorization failed:" with the status text when the body has no
\* truthy detail, or with the status code and text when the body is not
\* JSON.
C16_SurfacedFailureMessage ==
  NotOkSettled
    => LET resp == event.input
           detail == DetailOf(resp)
       IN categorizationError =
            Str(IF ~resp.readable
                THEN "Categorization failed: " \o resp.status \o " - " \o resp.statusText
                ELSE IF detail.t = "str" /\ detail.s # "" THEN detail.s
                ELSE IF detail.t = "arr" /\ Len(detail.o) > 0 THEN DetailItems(detail)
                ELSE IF detail.t = "arr" THEN "[]"
                ELSE IF Truthy(detail) THEN JsonStringify(detail)
                ELSE "Categorization failed: " \o resp.statusText)

\* A 500 response whose detail is an object: the message is its JSON text.
C16_Witness ==
  /\ NotOkSettled
  /\ event.input.status = "500"
  /\ DetailOf(event.input).t = "obj"
  /\ categorizationError = Str("{\"code\":1}")

\* C17: in every state of the application selectedModel is openai, gemini
\* or ollama, so the URL a categorize request is built with names one of
\* the three models, never an empty or unlisted one.
C17_ModelIsListed ==
  /\ selectedModel \in {"openai", "gemini", "ollama"}
  /\ CategorizeRequest(selectedModel, csvData).url
       \in {"/categorize?model_name=openai", "/categorize?model_name=gemini",
            "/categorize?model_name=ollama"}

\* The model select was changed to ollama.
C17_Witness ==
  /\ event.op = "selectModel"
  /\ event.input = "ollama"
  /\ selectedModel = "ollama"

\* C18: every step of addCategory, removeCategory or a field blur sends
\* one POST, to the endpoint of the list it is about, whose body is that
\* whole list as it stands after the step (with the blank entry appended,
\* with the removed entry gone, or unchanged for a blur), and leaves the
\* other list alone; typing into a field posts nothing and changes no
\* entry of the other list.
C18_SavesPostTheWholeList ==
  [][/\ event'.op \in {"addCategory", "removeCategory", "handleBlur"}
         => LET product == event'.input = "product"
                before == IF product THEN productCategories ELSE resolutionTypes
                after == IF product THEN productCategories' ELSE resolutionTypes'
            IN /\ Len(event'.requests) = 1
               /\ event'.requests[1].method = "POST"
               /\ event'.requests[1].url = (IF product THEN "/categories" ELSE "/resolutions")
               /\ event'.requests[1].body = after
               /\ IF product THEN resolutionTypes' = resolutionTypes
                             ELSE productCategories' = productCategories
               /\ event'.op = "addCategory"
                    => after = Append(before, [name |-> "", description |-> ""])
               /\ event'.op = "removeCategory"
                    => /\ Len(after) = Len(before) - 1
                       /\ \E index \in 1..Len(before) :
                            after = SubSeq(before, 1, index - 1)
                                      \o SubSeq(before, index + 1, Len(before))
               /\ event'.op = "handleBlur" => after = before
     /\ event'.op = "updateCategory"
         => /\ event'.requests = <<>>
            /\ IF event'.input = "product" THEN resolutionTypes' = resolutionTypes
                                           ELSE productCategories' = productCategories]_vars

\* One of two categories was removed: the POST to /categories holds
\* the one that is left, and the two resolution types are untouched.
C18_Witness ==
  /\ event.op = "removeCategory"
  /\ event.requests[1].url = "/categories"
  /\ event.requests[1].body = productCategories
  /\ productCategories = <<[name |-> "Billing", description |-> ""]>>
  /\ Len(resolutionTypes) = 2

ExportedCsv == CsvOf(event.downloads[1])
\* The text a value shows as a cell: nothing for null and undefined.
ShownText(v) == IF v.t \in {"null", "undefined"} THEN "" ELSE v.s
\* The column names that occur in some exported row.
ColumnsOfRows(rows) ==
  UNION {{rows[r][c].k : c \in 1..Len(rows[r])} : r \in 1..Len(rows)}
ColumnAt(csv, name) == CHOOSE c \in 1..Len(csv.header) : CellText(csv.header[c]) = name

\* C19 as claimed: the header of the exported CSV holds every column that
\* occurs in some exported row and no other, each once; every line has one
\* cell per column, the row's value for it, empty when the row has none.
C19_HeaderIsUnionOfKeys ==
  Exported
    => /\ {CellText(ExportedCsv.header[c]) : c \in 1..Len(ExportedCsv.header)}
            = ColumnsOfRows(ExportedRows)
       /\ Len(ExportedCsv.header) = Cardinality(ColumnsOfRows(ExportedRows))
       /\ Len(ExportedCsv.lines) = Len(ExportedRows)
       /\ \A r \in 1..Len(ExportedRows) :
            /\ Len(ExportedCsv.lines[r]) = Len(ExportedCsv.header)
            /\ \A name \in ColumnsOfRows(ExportedRows) :
                 CellText(ExportedCsv.lines[r][ColumnAt(ExportedCsv, name)])
                   = ShownText(Get(ExportedRows[r], name))

\* C20 as claimed: parsing the exported CSV again, as the upload handler
\* parses a file, gives as many rows as were exported, and every column of
\* every exported row is found again with the same cell text.
C20_ExportRoundTrip ==
  Exported
    => LET again == ParseCsv(ExportedCsv)
       IN /\ Len(again) = Len(ExportedRows)
          /\ \A r \in 1..Len(ExportedRows) :
               \A c \in 1..Len(ExportedRows[r]) :
                 ShownText(Get(again[r], ExportedRows[r][c].k))
                   = ShownText(ExportedRows[r][c].v)

\* C21: every step that ends a file selection (the handler run with no
\* file chosen, the parser's complete callback, the parser's error
\* callback) leaves categorizedResults empty.
C21_SelectionClearsResults ==
  [][(\/ event'.op \in {"complete", "error"}
      \/ event'.op = "handleFileUpload" /\ parsing' = parsing)
       => categorizedResults' = <<>>]_vars

\* C22: in every state, under every interleaving of uploads with a
\* categorize request, a non-empty categorizedResults has one entry per
\* case of csvData, the entry at each position being that of the case at
\* that position.
C22_ResultsMatchCsvData ==
  categorizedResults # <<>>
    => /\ Len(categorizedResults) = Len(csvData)
       /\ \A i \in 1..Len(categorizedResults) :
            /\ KeepsOriginalFields(categorizedResults[i], csvData[i])
            /\ Get(categorizedResults[i].originalCase, "CaseNumber")
                 = Get(csvData[i], "CaseNumber")

\* C23: on the page, in every state at most one categorize request is in
\* flight, isCategorizing is true exactly while one is, and while it is
\* true the categorize button cannot start the handler.
C23_AtMostOneRequest ==
  /\ Len(inflight) <= 1
  /\ isCategorizing <=> inflight # <<>>
  /\ isCategorizing => ~ENABLED ClickCategorize
\* A file was loaded while the request was in flight: the button is held
\* disabled by isCategorizing alone.
C23_Witness ==
  /\ isCategorizing
  /\ Len(inflight) = 1
  /\ event.op = "complete"
  /\ ~CategorizeDisabledIgnoringBusy

\* C24: while a categorize request is in flight categorizedResults is empty
\* and categorizationError is null; when it settles isCategorizing is false
\* and either the request succeeded, categorizationError is null and
\* categorizedResults holds the response, or it failed, categorizationError
\* is set and categorizedResults holds one "Error" entry per case of csvData.
C24_CategorizationEnds ==
  /\ isCategorizing => categorizedResults = <<>> /\ categorizationError = Null
  /\ Settled =>
       /\ ~isCategorizing
       /\ IF Succeeds(event.input)
          THEN /\ categorizationError = Null
               /\ categorizedResults = event.input.results
          ELSE /\ categorizationError # Null
               /\ Len(categorizedResults) = Len(csvData)
               /\ \A i \in 1..Len(categorizedResults) :
                    categorizedResults[i].predictedCategory = Str("Error")

\* C25: a load in which either fetch fails records the error; and whenever
\* the load error is set, loading is over, both lists are empty as App
\* created them, and the page has not run: no handler of it was called and
\* no categorize request is in flight.
C25_LoadAllOrNothing ==
  /\ (event.op = "fetchInitialData"
        /\ ~LoadSucceeds(event.input[1], event.input[2]))
       => Truthy(initialDataError)
  /\ Truthy(initialDataError)
       => /\ ~loadingInitialData
          /\ productCategories = <<>>
          /\ resolutionTypes = <<>>
          /\ ~Rendered
          /\ event.op = "fetchInitialData"
          /\ inflight = <<>>
\* The categories arrived, the body of the resolutions was unreadable.
C25_Witness ==
  /\ event.op = "fetchInitialData"
  /\ event.input[1] = LoadResponse(FALSE, TRUE, "200", TRUE, <<SampleCategory>>)
  /\ event.input[2] = LoadResponse(FALSE, TRUE, "200", FALSE, <<>>)
  /\ initialDataError
       = Str("Failed to load initial settings: Unexpected token < in JSON at position 0"
               \o ". Please ensure your backend is running.")

\* C26: when a save has settled and no save is pending, the list the
\* backend holds for each taxonomy type is the list App holds.
C26_ServerHoldsLocalLists ==
  (event.op = "saveSettled" /\ saves = <<>>)
    => /\ server.categories = productCategories
       /\ server.resolutions = resolutionTypes

====
